---- MODULE Spec2Model ----
(***************************************************************************)
(* Model of streamlit_app.py: SimpleAnalyzer (pattern scan) and            *)
(* Anonimizador (_apply_mask, _apply_replacement, anonimizar_texto,        *)
(* processar_json).                                                        *)
(*                                                                         *)
(* A Python str is a sequence of one-character strings.  Offsets are       *)
(* 0-based as in Python: the span [start,end) of t is                      *)
(* t[start+1] .. t[end] in TLA+ indexing.                                  *)
(***************************************************************************)
EXTENDS Integers, Sequences, FiniteSets, TLC

VARIABLES
    text,            \* anonimizar_texto: the argument
    operator_config, \* Anonimizador.operator_config
    results,         \* anonimizar_texto: the local list `results`
    idx,             \* position of the for loop in `results` (1-based)
    modified_text,   \* anonimizar_texto: the local `modified_text`
    output,          \* the value anonimizar_texto returned
    raised,          \* TRUE when the except branch was taken
    pc,              \* position in anonimizar_texto
    mask_text,       \* _apply_mask: argument `text`
    mask_config,     \* _apply_mask: argument `config`
    mask_out,        \* the value _apply_mask returned
    mpc,             \* position of the _apply_mask call
    dados,           \* processar_json: the parsed JSON value
    json_out,        \* the value processar_json returned
    jpc              \* position in processar_json

vars == <<text, operator_config, results, idx, modified_text, output, raised,
          pc, mask_text, mask_config, mask_out, mpc, dados, json_out, jpc>>

textVars == <<text, operator_config, results, idx, modified_text, output,
              raised, pc>>
maskVars == <<mask_text, mask_config, mask_out, mpc>>
jsonVars == <<dados, json_out, jpc>>

(***************************************************************************)
(* Bounds of the input domains.                                            *)
(***************************************************************************)
MaxTokens == 3       \* most tokens concatenated into a text
MaxMaskLen == 3      \* longest string handed to _apply_mask
MaxMaskCount == 4    \* largest |chars_to_mask| handed to _apply_mask
MaxJsonNodes == 4    \* most nodes (containers and leaves) of a JSON value

(***************************************************************************)
(* Python helpers                                                          *)
(***************************************************************************)
Min(a, b) == IF a < b THEN a ELSE b
Max(a, b) == IF a > b THEN a ELSE b

\* Python slice index normalisation: negative counts from the end, then clamp.
PyIndex(i, n) == IF i < 0 THEN Max(i + n, 0) ELSE Min(i, n)

\* t[lo:hi]
PySlice(t, lo, hi) ==
    LET a == PyIndex(lo, Len(t))
        b == PyIndex(hi, Len(t))
    IN  IF a < b THEN SubSeq(t, a + 1, b) ELSE <<>>

\* t[lo:]
PySliceFrom(t, lo) == PySlice(t, lo, Len(t))

\* t[:hi]
PySliceTo(t, hi) == PySlice(t, 0, hi)

\* c * n for a one-character string c: empty when n <= 0
PyRepeat(c, n) == IF n <= 0 THEN <<>> ELSE [k \in 1..n |-> c]

RECURSIVE Flatten(_)
Flatten(ss) == IF ss = <<>> THEN <<>> ELSE Head(ss) \o Flatten(Tail(ss))

(***************************************************************************)
(* Regular expressions (the subset of Python's re the patterns use).       *)
(* A regex is a tree.  Match(todo, t, i) is the backtracking matcher: todo *)
(* is the list of regexes still to be matched in sequence from offset i of *)
(* t; the value is the offset where the first successful attempt ends, in  *)
(* the order re tries them (alternatives left to right, quantifiers        *)
(* greedy), or NoMatch.                                                    *)
(***************************************************************************)
NoMatch == -1
Unbounded == 99

Set(cs) == [op |-> "set", cs |-> cs]
Cat(args) == [op |-> "cat", args |-> args]
Alt(args) == [op |-> "alt", args |-> args]
Rep(arg, lo, hi) == [op |-> "rep", arg |-> arg, lo |-> lo, hi |-> hi]
Opt(arg) == Rep(arg, 0, 1)
Star(arg) == Rep(arg, 0, Unbounded)
Plus(arg) == Rep(arg, 1, Unbounded)
Ch(c) == Set({c})
Word(w) == Cat([k \in 1..Len(w) |-> Ch(w[k])])

RECURSIVE Match(_, _, _)
RECURSIVE MatchAlt(_, _, _, _, _)

Match(todo, t, i) ==
    IF todo = <<>> THEN i
    ELSE LET re == Head(todo)
             rest == Tail(todo)
         IN  CASE re.op = "set" ->
                    IF i < Len(t) /\ t[i + 1] \in re.cs
                    THEN Match(rest, t, i + 1)
                    ELSE NoMatch
               [] re.op = "cat" -> Match(re.args \o rest, t, i)
               [] re.op = "alt" -> MatchAlt(re.args, 1, rest, t, i)
               [] re.op = "rep" ->
                    \* greedy: one more iteration is tried before stopping
                    LET more == IF re.hi > 0
                                THEN Match(<<re.arg,
                                             Rep(re.arg,
                                                 IF re.lo > 0 THEN re.lo - 1
                                                 ELSE 0,
                                                 re.hi - 1)>> \o rest, t, i)
                                ELSE NoMatch
                    IN  IF more # NoMatch THEN more
                        ELSE IF re.lo = 0 THEN Match(rest, t, i)
                        ELSE NoMatch

MatchAlt(args, k, rest, t, i) ==
    IF k > Len(args) THEN NoMatch
    ELSE LET e == Match(<<args[k]>> \o rest, t, i)
         IN  IF e # NoMatch THEN e ELSE MatchAlt(args, k + 1, rest, t, i)

\* What re.compile precomputes for the scan: whether the regex matches the
\* empty string, and the characters a non-empty match can begin with.
RECURSIVE Nullable(_)
Nullable(re) ==
    CASE re.op = "set" -> FALSE
      [] re.op = "cat" -> \A k \in 1..Len(re.args) : Nullable(re.args[k])
      [] re.op = "alt" -> \E k \in 1..Len(re.args) : Nullable(re.args[k])
      [] re.op = "rep" -> re.lo = 0 \/ Nullable(re.arg)

RECURSIVE First(_)
First(re) ==
    CASE re.op = "set" -> re.cs
      [] re.op = "cat" ->
            UNION {First(re.args[k]) :
                     k \in {j \in 1..Len(re.args) :
                              \A h \in 1..(j - 1) : Nullable(re.args[h])}}
      [] re.op = "alt" -> UNION {First(re.args[k]) : k \in 1..Len(re.args)}
      [] re.op = "rep" -> IF re.hi > 0 THEN First(re.arg) ELSE {}

\* re.compile(pattern)
compile(re) == [re |-> re, nullable |-> Nullable(re), first |-> First(re)]

\* pattern.finditer(text): leftmost matches, scanning on from each match's
\* end.  Only offsets whose character can begin a match are tried.
RECURSIVE finditer(_, _, _)
finditer(pattern, t, pos) ==
    LET candidates ==
            {i \in pos..Len(t) :
                pattern.nullable \/ (i < Len(t) /\ t[i + 1] \in pattern.first)}
    IN  IF candidates = {} THEN <<>>
        ELSE LET i == CHOOSE c \in candidates : \A d \in candidates : c <= d
                 e == Match(<<pattern.re>>, t, i)
             IN  IF e = NoMatch THEN finditer(pattern, t, i + 1)
                 ELSE <<[start |-> i, end |-> e]>>
                      \o finditer(pattern, t, IF e > i THEN e ELSE i + 1)

(***************************************************************************)
(* Character classes                                                       *)
(***************************************************************************)
Digit == {"0", "1", "2", "3", "4", "5", "6", "7", "8", "9"}
\* the lower-case letters a-z and à-ú, and their upper-case forms A-Z and À-Ú
LowerSeq ==
    <<"a", "b", "c", "d", "e", "f", "g", "h", "i", "j", "k", "l",
      "m", "n", "o", "p", "q", "r", "s", "t", "u", "v", "w", "x",
      "y", "z", "à", "á", "â", "ã", "ä", "å", "æ", "ç", "è", "é",
      "ê", "ë", "ì", "í", "î", "ï", "ð", "ñ", "ò", "ó", "ô", "õ",
      "ö", "ø", "ù", "ú">>
UpperSeq ==
    <<"A", "B", "C", "D", "E", "F", "G", "H", "I", "J", "K", "L",
      "M", "N", "O", "P", "Q", "R", "S", "T", "U", "V", "W", "X",
      "Y", "Z", "À", "Á", "Â", "Ã", "Ä", "Å", "Æ", "Ç", "È", "É",
      "Ê", "Ë", "Ì", "Í", "Î", "Ï", "Ð", "Ñ", "Ò", "Ó", "Ô", "Õ",
      "Ö", "Ø", "Ù", "Ú">>
\* [a-z], [A-Z]
Lower == {LowerSeq[k] : k \in 1..26}
Upper == {UpperSeq[k] : k \in 1..26}
\* [A-ZÀ-Ú] under (?i): the range (it holds the sign "×") in either case
NameHead ==
    {LowerSeq[k] : k \in 1..Len(LowerSeq)}
    \cup {UpperSeq[k] : k \in 1..Len(UpperSeq)} \cup {"×"}
\* [a-zà-ú] under (?i): the range (it holds the sign "÷") in either case
NameTail ==
    {LowerSeq[k] : k \in 1..Len(LowerSeq)}
    \cup {UpperSeq[k] : k \in 1..Len(UpperSeq)} \cup {"÷"}
\* \s
Space == {" ", "\t", "\n", "\r"}

\* str.strip() leaves nothing: every character is whitespace
IsBlank(t) == \A k \in 1..Len(t) : t[k] \in Space

\* a literal character under (?i): itself in either case
Fold(c) ==
    {c} \cup {UpperSeq[k] : k \in {j \in 1..Len(LowerSeq) : LowerSeq[j] = c}}
        \cup {LowerSeq[k] : k \in {j \in 1..Len(UpperSeq) : UpperSeq[j] = c}}
ChI(c) == Set(Fold(c))
WordI(w) == Cat([k \in 1..Len(w) |-> ChI(w[k])])

D == Set(Digit)
DN(n) == Rep(D, n, n)
S == Set(Space)
\* [A-ZÀ-Ú][a-zà-ú]+ under (?i)
Name == Cat(<<Set(NameHead), Plus(Set(NameTail))>>)
\* (?:\+55\s?)?(?:\(?\d{2}\)?[-\s]?)?\d{4,5}[-\s]?\d{4}
Phone ==
    Cat(<<Opt(Cat(<<Ch("+"), Ch("5"), Ch("5"), Opt(S)>>)),
          Opt(Cat(<<Opt(Ch("(")), DN(2), Opt(Ch(")")),
                    Opt(Set({"-"} \cup Space))>>)),
          Rep(D, 4, 5), Opt(Set({"-"} \cup Space)), DN(4)>>)
\* \d{2}[-/]\d{2}[-/]\d{4}
NumericDate == Cat(<<DN(2), Set({"-", "/"}), DN(2), Set({"-", "/"}), DN(4)>>)

(***************************************************************************)
(* SimpleAnalyzer._get_patterns: the registry, in insertion order          *)
(***************************************************************************)
_get_patterns == <<
  [entity_type |-> "CPF",
   re |-> Cat(<<DN(3), Opt(Ch(".")), DN(3), Opt(Ch(".")), DN(3), Opt(Ch("-")),
                DN(2)>>)],
  [entity_type |-> "RG",
   re |-> Alt(<<
          Cat(<<DN(2), Opt(Ch(".")), DN(3), Opt(Ch(".")), DN(3), Opt(Ch("-")),
                DN(1)>>),
          Cat(<<DN(2), Opt(Ch(".")), DN(3), Opt(Ch(".")), DN(3)>>)>>)],
  [entity_type |-> "CNH", re |-> DN(11)],
  [entity_type |-> "TITULO_ELEITOR",
   re |-> Cat(<<DN(4), Opt(S), DN(4), Opt(S), DN(4)>>)],
  [entity_type |-> "PIS",
   re |-> Cat(<<DN(3), Opt(Ch(".")), DN(5), Opt(Ch(".")), DN(2), Opt(Ch("-")),
                DN(1)>>)],
  [entity_type |-> "PASSAPORTE", re |-> Cat(<<Rep(Set(Upper), 2, 2), DN(6)>>)],
  [entity_type |-> "NOME_COMPLETO",
   re |-> Cat(<<Name,
                Plus(Cat(<<Plus(S),
                           Alt(<<Cat(<<WordI(<<"d", "o">>), Opt(ChI("s"))>>),
                                 Cat(<<WordI(<<"d", "a">>), Opt(ChI("s"))>>),
                                 WordI(<<"d", "e">>),
                                 ChI("e"),
                                 Name>>)>>))>>)],
  [entity_type |-> "NOME_PAIS",
   re |-> Cat(<<Alt(<<
          WordI(<<"p", "a", "i">>),
          WordI(<<"m", "ã", "e">>),
          WordI(<<"m", "a", "e">>),
          Cat(<<WordI(<<"g", "e", "n", "i", "t", "o", "r">>), Opt(ChI("a"))>>),
          WordI(<<"f", "a", "t", "h", "e", "r">>),
          WordI(<<"m", "o", "t", "h", "e", "r">>)>>),
                Star(S), Opt(Ch(":")), Star(S),
                Name,
                Plus(Cat(<<Ch(" "),
                           Alt(<<Cat(<<WordI(<<"d", "o">>), Opt(ChI("s"))>>),
                                 Cat(<<WordI(<<"d", "a">>), Opt(ChI("s"))>>),
                                 WordI(<<"d", "e">>),
                                 ChI("e"),
                                 Name>>)>>))>>)],
  [entity_type |-> "ESTADO_CIVIL",
   re |-> Alt(<<
          WordI(<<"s", "o", "l", "t", "e", "i", "r", "o">>),
          WordI(<<"c", "a", "s", "a", "d", "o">>),
          WordI(<<"d", "i", "v", "o", "r", "c", "i", "a", "d", "o">>),
          WordI(<<"s", "e", "p", "a", "r", "a", "d", "o">>),
          WordI(<<"v", "i", "ú", "v", "o">>),
          WordI(<<"v", "i", "u", "v", "o">>),
          WordI(<<"u", "n", "i", "ã", "o", " ", "e", "s", "t", "á", "v", "e", "l">>),
          WordI(<<"u", "n", "i", "a", "o", " ", "e", "s", "t", "a", "v", "e", "l">>)>>)],
  [entity_type |-> "PROFISSAO",
   re |-> Cat(<<WordI(<<"p", "r", "o", "f", "i", "s", "s">>),
                Set({"ã", "Ã", "a", "A"}), ChI("o"),
                Star(S), Opt(Ch(":")), Star(S),
                Name, Star(Cat(<<Ch(" "), Name>>))>>)],
  [entity_type |-> "EMAIL",
   re |-> Cat(<<Plus(Set(Lower \cup Upper \cup Digit
                         \cup {".", "_", "%", "+", "-"})),
                Ch("@"),
                Plus(Set(Lower \cup Upper \cup Digit \cup {".", "-"})),
                Ch("."),
                Rep(Set(Lower \cup Upper), 2, Unbounded)>>)],
  [entity_type |-> "TELEFONE", re |-> Phone],
  [entity_type |-> "WHATSAPP",
   re |-> Cat(<<Opt(Alt(<<
          WordI(<<"w", "h", "a", "t", "s", "a", "p", "p">>),
          WordI(<<"w", "p", "p">>),
          WordI(<<"z", "a", "p">>)>>)),
                Star(S), Opt(Ch(":")), Star(S), Phone>>)],
  [entity_type |-> "CARTAO_CREDITO",
   re |-> Cat(<<DN(4), Opt(Set({"-"} \cup Space)), DN(4),
                Opt(Set({"-"} \cup Space)), DN(4),
                Opt(Set({"-"} \cup Space)), DN(4)>>)],
  [entity_type |-> "CONTA_BANCARIA",
   re |-> Cat(<<Alt(<<Cat(<<WordI(<<"a", "g">>), Set({"ê", "Ê", "e", "E"}),
                            WordI(<<"n", "c", "i", "a">>)>>),
                      WordI(<<"c", "o", "n", "t", "a">>)>>),
                Star(S), Opt(Ch(":")), Star(S),
                Rep(D, 1, 4), Opt(Set({"-", "."})), Rep(D, 1, 10)>>)],
  [entity_type |-> "RENDA",
   re |-> Cat(<<Alt(<<Cat(<<WordI(<<"s", "a", "l">>), Set({"á", "Á", "a", "A"}),
                            WordI(<<"r", "i", "o">>)>>),
                      WordI(<<"r", "e", "n", "d", "a">>)>>),
                Star(S), Opt(Ch(":")), Star(S),
                Opt(ChI("R")), Opt(Ch("$")), Star(S),
                Plus(D), Star(Cat(<<Ch("."), DN(3)>>)),
                Opt(Cat(<<Ch(","), DN(2)>>))>>)],
  [entity_type |-> "ENDERECO",
   re |-> Cat(<<Alt(<<
          WordI(<<"R", "u", "a">>),
          WordI(<<"A", "v">>),
          WordI(<<"A", "v", "e", "n", "i", "d", "a">>),
          WordI(<<"A", "l", "a", "m", "e", "d", "a">>),
          WordI(<<"A", "l">>),
          WordI(<<"P", "r", "a", "ç", "a">>),
          WordI(<<"R">>),
          WordI(<<"T", "r", "a", "v", "e", "s", "s", "a">>),
          WordI(<<"R", "o", "d">>),
          WordI(<<"R", "o", "d", "o", "v", "i", "a">>)>>),
                Plus(S), Plus(Cat(<<Name, Star(S)>>)),
                Opt(Ch(",")), Star(S), Plus(D)>>)],
  [entity_type |-> "CEP", re |-> Cat(<<DN(5), Opt(Ch("-")), DN(3)>>)],
  [entity_type |-> "BAIRRO",
   re |-> Cat(<<Alt(<<WordI(<<"B", "a", "i", "r", "r", "o">>),
                      Cat(<<ChI("B"), Ch(".")>>)>>),
                Star(S), Opt(Ch(":")), Star(S),
                Name, Star(Cat(<<Ch(" "), Name>>))>>)],
  [entity_type |-> "RACA",
   re |-> Alt(<<
          WordI(<<"b", "r", "a", "n", "c", "o">>),
          WordI(<<"p", "r", "e", "t", "o">>),
          WordI(<<"p", "a", "r", "d", "o">>),
          WordI(<<"a", "m", "a", "r", "e", "l", "o">>),
          WordI(<<"i", "n", "d", "í", "g", "e", "n", "a">>),
          WordI(<<"i", "n", "d", "i", "g", "e", "n", "a">>),
          WordI(<<"n", "e", "g", "r", "o">>)>>)],
  [entity_type |-> "RELIGIAO",
   re |-> Alt(<<
          WordI(<<"c", "a", "t", "ó", "l", "i", "c", "o">>),
          WordI(<<"c", "a", "t", "o", "l", "i", "c", "o">>),
          WordI(<<"e", "v", "a", "n", "g", "é", "l", "i", "c", "o">>),
          WordI(<<"e", "v", "a", "n", "g", "e", "l", "i", "c", "o">>),
          WordI(<<"e", "s", "p", "í", "r", "i", "t", "a">>),
          WordI(<<"e", "s", "p", "i", "r", "i", "t", "a">>),
          WordI(<<"u", "m", "b", "a", "n", "d", "a">>),
          WordI(<<"c", "a", "n", "d", "o", "m", "b", "l", "é">>),
          WordI(<<"c", "a", "n", "d", "o", "m", "b", "l", "e">>),
          WordI(<<"j", "u", "d", "e", "u">>),
          WordI(<<"m", "u", "ç", "u", "l", "m", "a", "n", "o">>),
          WordI(<<"m", "u", "c", "u", "l", "m", "a", "n", "o">>),
          WordI(<<"b", "u", "d", "i", "s", "t", "a">>),
          WordI(<<"a", "t", "e", "u">>)>>)],
  [entity_type |-> "ORIENTACAO_SEXUAL",
   re |-> Alt(<<
          WordI(<<"h", "e", "t", "e", "r", "o", "s", "s", "e", "x", "u", "a", "l">>),
          WordI(<<"h", "o", "m", "o", "s", "s", "e", "x", "u", "a", "l">>),
          WordI(<<"b", "i", "s", "s", "e", "x", "u", "a", "l">>),
          WordI(<<"g", "a", "y">>),
          WordI(<<"l", "é", "s", "b", "i", "c", "a">>),
          WordI(<<"l", "e", "s", "b", "i", "c", "a">>),
          Cat(<<WordI(<<"t", "r", "a", "n", "s">>),
                Opt(Alt(<<WordI(<<"e", "x", "u", "a", "l">>),
                          WordI(<<"g", "ê", "n", "e", "r", "o">>),
                          WordI(<<"g", "e", "n", "e", "r", "o">>)>>))>>)>>)],
  [entity_type |-> "DATA",
   re |-> Alt(<<NumericDate,
                Cat(<<DN(2), Plus(S),
                      Opt(Cat(<<Word(<<"d", "e">>), Plus(S)>>)),
                      Alt(<<
          Word(<<"j", "a", "n", "e", "i", "r", "o">>),
          Word(<<"f", "e", "v", "e", "r", "e", "i", "r", "o">>),
          Word(<<"m", "a", "r", "ç", "o">>),
          Word(<<"m", "a", "r", "c", "o">>),
          Word(<<"a", "b", "r", "i", "l">>),
          Word(<<"m", "a", "i", "o">>),
          Word(<<"j", "u", "n", "h", "o">>),
          Word(<<"j", "u", "l", "h", "o">>),
          Word(<<"a", "g", "o", "s", "t", "o">>),
          Word(<<"s", "e", "t", "e", "m", "b", "r", "o">>),
          Word(<<"o", "u", "t", "u", "b", "r", "o">>),
          Word(<<"n", "o", "v", "e", "m", "b", "r", "o">>),
          Word(<<"d", "e", "z", "e", "m", "b", "r", "o">>)>>),
                      Plus(S),
                      Opt(Cat(<<Word(<<"d", "e">>), Plus(S)>>)),
                      DN(4)>>)>>)],
  [entity_type |-> "NASCIMENTO",
   re |-> Cat(<<Alt(<<Cat(<<WordI(<<"n", "a", "s", "c", "i", "d">>),
                            Set({"o", "O", "a", "A"}),
                            Opt(Cat(<<Plus(S), WordI(<<"e", "m">>)>>))>>),
                      Cat(<<WordI(<<"d", "a", "t", "a">>), Plus(S),
                            WordI(<<"d", "e">>), Plus(S),
                            WordI(<<"n", "a", "s", "c", "i", "m", "e", "n",
                                    "t", "o">>)>>)>>),
                Star(S), Opt(Ch(":")), Star(S), NumericDate>>)]
>>

(***************************************************************************)
(* Anonimizador._get_operator_config                                       *)
(***************************************************************************)
MaskConfig(n, c, e) ==
    [type |-> "mask", chars_to_mask |-> n, masking_char |-> c, from_end |-> e]
ReplaceConfig(v) == [type |-> "replace", new_value |-> v]

_get_operator_config == [
  CPF |-> MaskConfig(9, "*", FALSE),
  RG |-> MaskConfig(7, "*", FALSE),
  CNH |-> MaskConfig(8, "*", FALSE),
  TITULO_ELEITOR |-> MaskConfig(8, "*", FALSE),
  PIS |-> MaskConfig(9, "*", FALSE),
  PASSAPORTE |-> MaskConfig(6, "*", FALSE),
  NOME_COMPLETO |-> ReplaceConfig(<<
        "[", "N", "O", "M", "E", " ", "P", "R", "O", "T", "E", "G",
        "I", "D", "O", "]">>),
  NOME_PAIS |-> ReplaceConfig(<<
        "[", "F", "I", "L", "I", "A", "Ç", "Ã", "O", " ", "P", "R",
        "O", "T", "E", "G", "I", "D", "A", "]">>),
  ESTADO_CIVIL |-> ReplaceConfig(<<
        "[", "E", "S", "T", "A", "D", "O", " ", "C", "I", "V", "I",
        "L", " ", "P", "R", "O", "T", "E", "G", "I", "D", "O", "]">>),
  PROFISSAO |-> ReplaceConfig(<<
        "[", "P", "R", "O", "F", "I", "S", "S", "Ã", "O", " ", "P",
        "R", "O", "T", "E", "G", "I", "D", "A", "]">>),
  EMAIL |-> MaskConfig(-1, "*", FALSE),
  TELEFONE |-> MaskConfig(8, "*", FALSE),
  WHATSAPP |-> MaskConfig(8, "*", FALSE),
  CARTAO_CREDITO |-> MaskConfig(12, "*", FALSE),
  CONTA_BANCARIA |-> ReplaceConfig(<<
        "[", "D", "A", "D", "O", "S", " ", "B", "A", "N", "C", "Á",
        "R", "I", "O", "S", " ", "P", "R", "O", "T", "E", "G", "I",
        "D", "O", "S", "]">>),
  RENDA |-> ReplaceConfig(<<
        "[", "I", "N", "F", "O", "R", "M", "A", "Ç", "Ã", "O", " ",
        "F", "I", "N", "A", "N", "C", "E", "I", "R", "A", " ", "P",
        "R", "O", "T", "E", "G", "I", "D", "A", "]">>),
  ENDERECO |-> ReplaceConfig(<<
        "[", "E", "N", "D", "E", "R", "E", "Ç", "O", " ", "P", "R",
        "O", "T", "E", "G", "I", "D", "O", "]">>),
  CEP |-> MaskConfig(5, "*", FALSE),
  BAIRRO |-> ReplaceConfig(<<
        "[", "B", "A", "I", "R", "R", "O", " ", "P", "R", "O", "T",
        "E", "G", "I", "D", "O", "]">>),
  RACA |-> ReplaceConfig(<<
        "[", "D", "A", "D", "O", " ", "S", "E", "N", "S", "Í", "V",
        "E", "L", " ", "-", " ", "R", "A", "Ç", "A", "]">>),
  RELIGIAO |-> ReplaceConfig(<<
        "[", "D", "A", "D", "O", " ", "S", "E", "N", "S", "Í", "V",
        "E", "L", " ", "-", " ", "R", "E", "L", "I", "G", "I", "Ã",
        "O", "]">>),
  ORIENTACAO_SEXUAL |-> ReplaceConfig(<<
        "[", "D", "A", "D", "O", " ", "S", "E", "N", "S", "Í", "V",
        "E", "L", " ", "-", " ", "O", "R", "I", "E", "N", "T", "A",
        "Ç", "Ã", "O", " ", "S", "E", "X", "U", "A", "L", "]">>),
  DATA |-> ReplaceConfig(<<
        "[", "D", "A", "T", "A", " ", "P", "R", "O", "T", "E", "G",
        "I", "D", "A", "]">>),
  NASCIMENTO |-> ReplaceConfig(<<
        "[", "D", "A", "T", "A", " ", "D", "E", " ", "N", "A", "S",
        "C", "I", "M", "E", "N", "T", "O", " ", "P", "R", "O", "T",
        "E", "G", "I", "D", "A", "]">>),
  DEFAULT |-> ReplaceConfig(<<
        "[", "D", "A", "D", "O", " ", "P", "R", "O", "T", "E", "G",
        "I", "D", "O", "]">>)
]

(***************************************************************************)
(* SimpleAnalyzer._compile_patterns                                        *)
(***************************************************************************)
compiled_patterns ==
    [p \in 1..Len(_get_patterns) |->
        [entity_type |-> _get_patterns[p].entity_type,
         pattern |-> compile(_get_patterns[p].re)]]

(***************************************************************************)
(* SimpleAnalyzer.analyze                                                  *)
(***************************************************************************)
\* 'score': 0.85, in hundredths
Score == 85

\* list.sort / sorted on key x['start']: stable; with reverse=True elements
\* of equal key also keep their original order
RECURSIVE InsertByStart(_, _, _)
InsertByStart(x, s, reverse) ==
    IF s = <<>> THEN <<x>>
    ELSE IF (~reverse /\ Head(s).start <= x.start)
            \/ (reverse /\ Head(s).start >= x.start)
         THEN <<Head(s)>> \o InsertByStart(x, Tail(s), reverse)
         ELSE <<x>> \o s

RECURSIVE SortByStart(_, _)
SortByStart(s, reverse) ==
    IF s = <<>> THEN <<>>
    ELSE InsertByStart(s[Len(s)], SortByStart(SubSeq(s, 1, Len(s) - 1), reverse),
                       reverse)

\* the matches of one registry entry, as the dicts analyze appends
PatternMatches(entity_type, pattern, t) ==
    LET ms == finditer(pattern, t, 0)
    IN  [k \in 1..Len(ms) |->
            [entity_type |-> entity_type,
             start |-> ms[k].start,
             end |-> ms[k].end,
             score |-> Score,
             text |-> SubSeq(t, ms[k].start + 1, ms[k].end)]]

analyze(t) ==
    SortByStart(
        Flatten([p \in 1..Len(compiled_patterns) |->
                    PatternMatches(compiled_patterns[p].entity_type,
                                   compiled_patterns[p].pattern, t)]),
        FALSE)

(***************************************************************************)
(* Anonimizador._apply_mask, _apply_replacement                            *)
(***************************************************************************)
\* dict.get(key, default)
Get(d, key, default) == IF key \in DOMAIN d THEN d[key] ELSE default

_apply_mask(t, config) ==
    LET chars_to_mask == Get(config, "chars_to_mask", Len(t))
        masking_char == Get(config, "masking_char", "*")
        from_end == Get(config, "from_end", FALSE)
    IN  IF from_end
        THEN PySliceTo(t, 0 - chars_to_mask)
             \o PyRepeat(masking_char, chars_to_mask)
        ELSE PyRepeat(masking_char, chars_to_mask)
             \o PySliceFrom(t, chars_to_mask)

DefaultNewValue ==
    <<"[", "D", "A", "D", "O", " ", "P", "R", "O", "T", "E", "G", "I", "D",
      "O", "]">>

_apply_replacement(t, config) == Get(config, "new_value", DefaultNewValue)

(***************************************************************************)
(* Anonimizador.anonimizar_texto                                           *)
(***************************************************************************)
\* self.operator_config.get(entity_type, self.operator_config.get('DEFAULT'))
\* is None when neither key is present; config['type'] then raises TypeError
HasConfig(cfg, entity_type) ==
    entity_type \in DOMAIN cfg \/ "DEFAULT" \in DOMAIN cfg

LookupConfig(cfg, entity_type) ==
    IF entity_type \in DOMAIN cfg THEN cfg[entity_type] ELSE cfg["DEFAULT"]

Replacement(cfg, result) ==
    LET config == LookupConfig(cfg, result.entity_type)
    IN  IF config.type = "mask"
        THEN _apply_mask(result.text, config)
        ELSE _apply_replacement(result.text, config)

\* the splice with the tail taken from start instead of end
SpliceKeepingMatch(mt, result, replacement) ==
    PySliceTo(mt, result.start) \o replacement \o PySliceFrom(mt, result.start)

\* modified_text[:start] + replacement + modified_text[end:]
Splice(mt, result, replacement) ==
    PySliceTo(mt, result.start) \o replacement \o PySliceFrom(mt, result.end)

\* the for loop from position k on; a record [raised, value]
RECURSIVE ApplyResults(_, _, _, _)
ApplyResults(cfg, rs, k, mt) ==
    IF k > Len(rs) THEN [raised |-> FALSE, value |-> mt]
    ELSE IF ~HasConfig(cfg, rs[k].entity_type)
         THEN [raised |-> TRUE, value |-> mt]
         ELSE ApplyResults(cfg, rs, k + 1,
                           Splice(mt, rs[k], Replacement(cfg, rs[k])))

\* the function as a whole (used by processar_json)
anonimizar_texto(cfg, t) ==
    IF IsBlank(t) THEN t
    ELSE LET rs == analyze(t)
         IN  IF rs = <<>> THEN t
             ELSE LET r == ApplyResults(cfg, SortByStart(rs, TRUE), 1, t)
                  IN  IF r.raised THEN t ELSE r.value

(***************************************************************************)
(* Input domains                                                           *)
(***************************************************************************)
SeqsUpTo(A, n) == UNION {[1..k -> A] : k \in 0..n}

\* texts are concatenations of a few tokens: a sensitive word, a name part,
\* white space, a digit group, a separator and an e-mail address
Tokens ==
    {<<"g", "a", "y">>, <<"a", "a">>, <<" ">>, <<"1", "1", "1", "1">>,
     <<"-">>, <<"a", "@", "a", ".", "a", "a">>}
Texts == {Flatten(ts) : ts \in SeqsUpTo(Tokens, MaxTokens)}

\* operator_config as constructed, and with entries (DEFAULT among them) absent
Without(cfg, keys) == [k \in DOMAIN cfg \ keys |-> cfg[k]]
Configs ==
    {_get_operator_config,
     Without(_get_operator_config, {"DEFAULT", "ORIENTACAO_SEXUAL", "CEP"})}

(***************************************************************************)
(* anonimizar_texto as a state machine                                     *)
(***************************************************************************)
IdleMask == mask_text = <<>> /\ mask_config = [type |-> "mask"]
            /\ mask_out = <<>> /\ mpc = "idle"
IdleJson == dados = <<>> /\ json_out = <<>> /\ jpc = "idle"
IdleText == text = <<>> /\ operator_config = _get_operator_config
            /\ results = <<>> /\ idx = 1 /\ modified_text = <<>>
            /\ output = <<>> /\ raised = FALSE /\ pc = "idle"

Init ==
    /\ text \in Texts
    /\ operator_config \in Configs
    /\ results = <<>>
    /\ idx = 1
    /\ modified_text = <<>>
    /\ output = <<>>
    /\ raised = FALSE
    /\ pc = "call"
    /\ IdleMask
    /\ IdleJson

\* the function up to the loop:
\*   if not isinstance(text, str) or not text.strip(): return text
\*   results = self.analyzer.analyze(text); if not results: return text
\*   results.sort(key=start, reverse=True); modified_text = text
Call ==
    /\ pc = "call"
    /\ LET rs == IF IsBlank(text) THEN <<>> ELSE analyze(text)
       IN  IF rs = <<>>
           THEN /\ output' = text
                /\ pc' = "done"
                /\ UNCHANGED <<results, idx, modified_text>>
           ELSE /\ results' = SortByStart(rs, TRUE)
                /\ modified_text' = text
                /\ idx' = 1
                /\ pc' = "loop"
                /\ UNCHANGED output
    /\ UNCHANGED <<text, operator_config, raised>>
    /\ UNCHANGED <<maskVars, jsonVars>>

\* one iteration of `for result in results`
LoopStep ==
    /\ pc = "loop"
    /\ idx <= Len(results)
    /\ HasConfig(operator_config, results[idx].entity_type)
    /\ modified_text' = Splice(modified_text, results[idx],
                               Replacement(operator_config, results[idx]))
    /\ idx' = idx + 1
    /\ UNCHANGED <<text, operator_config, results, output, raised, pc>>
    /\ UNCHANGED <<maskVars, jsonVars>>

\* config is None: config['type'] raises; except Exception: return text
LoopRaise ==
    /\ pc = "loop"
    /\ idx <= Len(results)
    /\ ~HasConfig(operator_config, results[idx].entity_type)
    /\ output' = text
    /\ raised' = TRUE
    /\ pc' = "done"
    /\ UNCHANGED <<text, operator_config, results, idx, modified_text>>
    /\ UNCHANGED <<maskVars, jsonVars>>

\* return modified_text
ReturnModified ==
    /\ pc = "loop"
    /\ idx > Len(results)
    /\ output' = modified_text
    /\ pc' = "done"
    /\ UNCHANGED <<text, operator_config, results, idx, modified_text, raised>>
    /\ UNCHANGED <<maskVars, jsonVars>>

Next ==
    \/ Call
    \/ LoopStep
    \/ LoopRaise
    \/ ReturnModified

Spec == Init /\ [][Next]_vars

(***************************************************************************)
(* _apply_mask called on its own                                           *)
(***************************************************************************)
MaskAlphabet == {"a", "b"}
MaskingChars == {"*", "#"}

\* Mask configurations: every combination of the three keys, and configs
\* where a key is absent and config.get supplies the default
MaskConfigs ==
    {MaskConfig(n, c, e) : n \in (0 - MaxMaskCount)..MaxMaskCount,
                           c \in MaskingChars, e \in BOOLEAN}
    \cup {[type |-> "mask"]}
    \cup {[type |-> "mask", chars_to_mask |-> n] :
            n \in (0 - MaxMaskCount)..MaxMaskCount}

InitMask ==
    /\ mask_text \in SeqsUpTo(MaskAlphabet, MaxMaskLen)
    /\ mask_config \in MaskConfigs
    /\ mask_out = <<>>
    /\ mpc = "call"
    /\ IdleText
    /\ IdleJson

ApplyMask ==
    /\ mpc = "call"
    /\ mask_out' = _apply_mask(mask_text, mask_config)
    /\ mpc' = "done"
    /\ UNCHANGED <<mask_text, mask_config>>
    /\ UNCHANGED <<textVars, jsonVars>>

NextMask == ApplyMask

SpecMask == InitMask /\ [][NextMask]_vars

(***************************************************************************)
(* Anonimizador.processar_json                                             *)
(*                                                                         *)
(* A JSON value is a record with the fields kind, s, n, b, keys, items:    *)
(* kind "str" with s the characters, "num" with n the number, "bool" with  *)
(* b the truth value, "null", "list" with items the elements, "dict" with  *)
(* keys the keys in insertion order and items the values under them; the   *)
(* fields a kind does not use are empty.  conteudo is represented by what  *)
(* json.loads makes of it: a JSON value, or InvalidJson when json.loads    *)
(* raises.                                                                 *)
(***************************************************************************)
Json(kind, s, n, b, keys, items) ==
    [kind |-> kind, s |-> s, n |-> n, b |-> b, keys |-> keys, items |-> items]
JsonStr(s) == Json("str", s, 0, FALSE, <<>>, <<>>)
JsonNum(n) == Json("num", <<>>, n, FALSE, <<>>, <<>>)
JsonBool(b) == Json("bool", <<>>, 0, b, <<>>, <<>>)
JsonNull == Json("null", <<>>, 0, FALSE, <<>>, <<>>)
JsonList(items) == Json("list", <<>>, 0, FALSE, <<>>, items)
JsonDict(keys, items) == Json("dict", <<>>, 0, FALSE, keys, items)
InvalidJson == Json("invalid", <<>>, 0, FALSE, <<>>, <<>>)

JsonStrings == {<<"g", "a", "y">>, <<"a">>}
JsonKeys == {"nome", "idade"}
JsonLeaves ==
    {JsonStr(s) : s \in JsonStrings} \cup {JsonNum(30), JsonBool(TRUE), JsonNull}

\* the JSON values of exactly n nodes; the sequences of values of m nodes
RECURSIVE JsonOfSize(_)
RECURSIVE JsonSeqsOfSize(_)

JsonOfSize(n) ==
    IF n = 1 THEN JsonLeaves \cup {JsonList(<<>>), JsonDict(<<>>, <<>>)}
    ELSE {JsonList(q) : q \in JsonSeqsOfSize(n - 1)}
         \cup UNION {
                {JsonDict(ks, q) :
                    ks \in {f \in [1..Len(q) -> JsonKeys] :
                              \A i, j \in 1..Len(q) : f[i] = f[j] => i = j}} :
                q \in {r \in JsonSeqsOfSize(n - 1) :
                         Len(r) <= Cardinality(JsonKeys)}}

JsonSeqsOfSize(m) ==
    IF m = 0 THEN {<<>>}
    ELSE UNION {{<<x>> \o q : x \in JsonOfSize(a), q \in JsonSeqsOfSize(m - a)} :
                  a \in 1..m}

JsonValues == UNION {JsonOfSize(n) : n \in 1..MaxJsonNodes}

\* str(d) of a scalar
ScalarStr(d) ==
    CASE d.kind = "num" -> <<"3", "0">>
      [] d.kind = "bool" -> <<"T", "r", "u", "e">>
      [] OTHER -> <<"N", "o", "n", "e">>

\* anonimizar_dict with every leaf handed to anonimizar_texto(str(x)), the
\* way processar_csv treats its cells
RECURSIVE anonimizar_dict_stringify(_, _)
anonimizar_dict_stringify(cfg, d) ==
    CASE d.kind = "dict" ->
            JsonDict(d.keys,
                     [i \in 1..Len(d.items) |->
                        anonimizar_dict_stringify(cfg, d.items[i])])
      [] d.kind = "list" ->
            JsonList([i \in 1..Len(d.items) |->
                        anonimizar_dict_stringify(cfg, d.items[i])])
      [] d.kind = "str" -> JsonStr(anonimizar_texto(cfg, d.s))
      [] OTHER -> JsonStr(anonimizar_texto(cfg, ScalarStr(d)))

\* the nested function anonimizar_dict of processar_json
RECURSIVE anonimizar_dict(_, _)
anonimizar_dict(cfg, d) ==
    CASE d.kind = "dict" ->
            JsonDict(d.keys,
                     [i \in 1..Len(d.items) |-> anonimizar_dict(cfg, d.items[i])])
      [] d.kind = "list" ->
            JsonList([i \in 1..Len(d.items) |-> anonimizar_dict(cfg, d.items[i])])
      [] d.kind = "str" -> JsonStr(anonimizar_texto(cfg, d.s))
      [] OTHER -> d

InitJson ==
    /\ dados \in JsonValues \cup {InvalidJson}
    /\ json_out = JsonNull
    /\ jpc = "call"
    /\ text = <<>>
    /\ operator_config = _get_operator_config
    /\ results = <<>>
    /\ idx = 1
    /\ modified_text = <<>>
    /\ output = <<>>
    /\ raised = FALSE
    /\ pc = "idle"
    /\ IdleMask

\* dados = json.loads(conteudo); return anonimizar_dict(dados)
ProcessarJson ==
    /\ jpc = "call"
    /\ dados # InvalidJson
    /\ json_out' = anonimizar_dict(operator_config, dados)
    /\ jpc' = "done"
    /\ UNCHANGED dados
    /\ UNCHANGED <<textVars, maskVars>>

\* json.loads raises; except Exception: return {}
ProcessarJsonRaise ==
    /\ jpc = "call"
    /\ dados = InvalidJson
    /\ json_out' = JsonDict(<<>>, <<>>)
    /\ jpc' = "done"
    /\ UNCHANGED dados
    /\ UNCHANGED <<textVars, maskVars>>

NextJson ==
    \/ ProcessarJson
    \/ ProcessarJsonRaise

SpecJson == InitJson /\ [][NextJson]_vars

(***************************************************************************)
(* Properties                                                              *)
(***************************************************************************)
RECURSIVE Sum(_, _)
Sum(f, n) == IF n = 0 THEN 0 ELSE f[n] + Sum(f, n - 1)

Reverse(s) == [k \in 1..Len(s) |-> s[Len(s) + 1 - k]]

\* the half-open intervals [start,end) intersect
Overlap(a, b) == a.start < b.end /\ b.start < a.end

\* positions in `results` of the matches the loop has spliced in so far
AppliedIdx == IF pc \in {"loop", "done"} THEN 1..(idx - 1) ELSE {}

PairwiseDisjoint(rs) ==
    \A i, j \in 1..Len(rs) : i # j => ~Overlap(rs[i], rs[j])

\* C1: no two matches that anonimizar_texto applies to a text have
\* intersecting [start,end) intervals.
NonOverlapInvariant ==
    \A i, j \in AppliedIdx : i # j => ~Overlap(results[i], results[j])

\* change of length caused by the match at position k of `results`
Delta(k) ==
    Len(Replacement(operator_config, results[k]))
    - (results[k].end - results[k].start)

\* offset in the output of what was at offset p of the input: p moved by
\* the length changes of the applied matches that end at or before p
Shifted(p) ==
    p + Sum([k \in 1..Len(results) |->
                IF results[k].end <= p THEN Delta(k) ELSE 0], Len(results))

InSomeSpan(p) ==
    \E k \in 1..Len(results) : results[k].start <= p /\ p < results[k].end

\* C2: when anonimizar_texto has applied its matches, every input character
\* outside all applied spans is in the output unchanged and in place, every
\* applied span holds its replacement (it was transformed exactly once), and
\* the output length is the input length minus the matched lengths plus the
\* replacement lengths.
RewriterPostCondition ==
    (pc = "done" /\ ~raised /\ results # <<>>) =>
        /\ Len(output) = Len(text)
                + Sum([k \in 1..Len(results) |-> Delta(k)], Len(results))
        /\ \A p \in 0..(Len(text) - 1) :
              ~InSomeSpan(p) =>
                  /\ Shifted(p) < Len(output)
                  /\ output[Shifted(p) + 1] = text[p + 1]
        /\ \A k \in 1..Len(results) :
              PySlice(output, Shifted(results[k].start),
                      Shifted(results[k].start)
                        + Len(Replacement(operator_config, results[k])))
                = Replacement(operator_config, results[k])

\* C3: at every iteration of the splice loop, modified_text still holds the
\* original matched text of every match not yet applied, at that match's
\* stored [start,end).
OffsetSafety ==
    pc = "loop" =>
        \A k \in idx..Len(results) :
            PySlice(modified_text, results[k].start, results[k].end)
              = results[k].text

\* chars_to_mask as _apply_mask reads it from mask_config
MaskCount == Get(mask_config, "chars_to_mask", Len(mask_text))
MaskChar == Get(mask_config, "masking_char", "*")
MaskFromEnd == Get(mask_config, "from_end", FALSE)

\* C4: _apply_mask returns a string of exactly len(s) characters, for every
\* string and every Mask configuration.
MaskLengthInvariant ==
    mpc = "done" => Len(mask_out) = Len(mask_text)

\* C5: with a negative chars_to_mask, _apply_mask returns
\* len - abs(chars_to_mask) masking characters followed by the last
\* abs(chars_to_mask) characters of the text, unchanged.
NegativeMaskKeepsSuffix ==
    (mpc = "done" /\ MaskCount < 0 /\ ~MaskFromEnd
       /\ 0 - MaskCount <= Len(mask_text)) =>
        mask_out = PyRepeat(MaskChar, Len(mask_text) + MaskCount)
                   \o SubSeq(mask_text, Len(mask_text) + MaskCount + 1,
                             Len(mask_text))

\* C6: anonimizar_texto fails closed: when redacting the text fails (an
\* entity type without a config and no DEFAULT), the value returned is not
\* the original input text.
FailClosed ==
    (pc = "done" /\ raised) => output # text

\* the shape of a JSON value: the value with every string leaf emptied
RECURSIVE Shape(_)
Shape(d) ==
    CASE d.kind = "dict" ->
            JsonDict(d.keys, [i \in 1..Len(d.items) |-> Shape(d.items[i])])
      [] d.kind = "list" ->
            JsonList([i \in 1..Len(d.items) |-> Shape(d.items[i])])
      [] d.kind = "str" -> JsonStr(<<>>)
      [] OTHER -> d

\* C7: for every parsed JSON value, processar_json returns a value of the
\* same shape: the same container kind at every level, the same list
\* lengths and order, the same dict keys, every non-string scalar unchanged;
\* only string leaf contents may differ.
ShapePreserved ==
    (jpc = "done" /\ dados # InvalidJson) => Shape(json_out) = Shape(dados)

\* a dict whose string leaf was rewritten next to a number leaf
ShapeWitness ==
    /\ jpc = "done"
    /\ dados.kind = "dict"
    /\ \E i, j \in 1..Len(dados.items) :
          /\ dados.items[i].kind = "str"
          /\ json_out.items[i] # dados.items[i]
          /\ dados.items[j].kind = "num"

\* position of an entity type in the registry
RegistryIndex(entity_type) ==
    CHOOSE p \in 1..Len(_get_patterns) :
        _get_patterns[p].entity_type = entity_type

\* a wins over b: higher score, else longer span, else registered earlier
Beats(a, b) ==
    \/ a.score > b.score
    \/ a.score = b.score /\ a.end - a.start > b.end - b.start
    \/ /\ a.score = b.score
       /\ a.end - a.start = b.end - b.start
       /\ RegistryIndex(a.entity_type) < RegistryIndex(b.entity_type)

\* C8: of two overlapping detected matches exactly one is applied, the one
\* with the higher score, else the longer span, else the earlier registered
\* pattern; the other is dropped entirely.
OverlapResolved ==
    (pc = "done" /\ ~raised) =>
        \A i, j \in 1..Len(results) :
            (i # j /\ Overlap(results[i], results[j])
               /\ Beats(results[i], results[j])) =>
                (i \in AppliedIdx /\ j \notin AppliedIdx)

\* C9: with chars_to_mask == 0, _apply_mask returns the text unchanged,
\* whether from_end is false or true.
MaskZeroIsNoOp ==
    (mpc = "done" /\ MaskCount = 0) => mask_out = mask_text

\* the text with each match, taken left to right, replaced by its
\* operator's output and everything else copied
RECURSIVE Rewritten(_, _, _, _)
Rewritten(cfg, t, pos, ms) ==
    IF ms = <<>> THEN PySliceFrom(t, pos)
    ELSE PySlice(t, pos, Head(ms).start)
         \o Replacement(cfg, Head(ms))
         \o Rewritten(cfg, t, Head(ms).end, Tail(ms))

\* C10: when the matches found are pairwise non-overlapping and every
\* entity type has an operator config, anonimizar_texto returns the input
\* with each matched span replaced by its operator's output (computed from
\* the original matched text) and all other characters in place, whatever
\* the length changes; with no match, or a blank text, it returns the input.
NonOverlappingRewrite ==
    pc = "done" =>
        /\ (IsBlank(text) \/ results = <<>>) => output = text
        /\ (/\ results # <<>>
            /\ PairwiseDisjoint(results)
            /\ \A k \in 1..Len(results) :
                  HasConfig(operator_config, results[k].entity_type)) =>
               output = Rewritten(operator_config, text, 0, Reverse(results))

\* two disjoint matches were replaced by texts of another length
NonOverlappingWitness ==
    /\ pc = "done"
    /\ ~raised
    /\ Len(results) >= 2
    /\ PairwiseDisjoint(results)
    /\ Len(output) # Len(text)

====
